---- MODULE Spec2Model ----
(***************************************************************************)
(* Model of the Kalshi signed request client (kalshiClient.py, utils.py).  *)
(*                                                                         *)
(* Strings the code inspects are sequences of tokens: "/" and "?" are      *)
(* tokens of their own, every other token is a piece of text that          *)
(* contains neither, so "/markets?limit=1000" is                           *)
(* <<"/", "markets", "?", "limit=1000">>.  Concatenation is \o.            *)
(***************************************************************************)
EXTENDS Integers, Sequences, FiniteSets, TLC

\* ---------------------------------------------------------------- bounds
\* wall clock, in milliseconds since the epoch, of the first state
ClockStart == 9
\* the clock is not advanced beyond this value
MaxClock == 11
\* longest endpoint, in tokens, given directly to _request
MaxEndpointLen == 2

\* ------------------------------------------------------------ input sets
None == "None"

\* values a caller gives to an optional or required query argument
ArgValues(a) == IF a = "limit" THEN {"0", "50"} ELSE {"x"}

\* values interpolated into a path segment
Ids == {"ID"}

\* JSON bodies a caller hands to the POST/PUT/DELETE wrappers
Payloads == {"{order}"}

\* timezone-aware instants, as milliseconds since the epoch
Datetimes == {1999}

\* period strings given to get_market_candlesticks
Periods == {"minute", "hour", "day", "Hour", "min", "week"}

\* method strings given directly to _request
Methods == {"get", "GET", "Post", "put", "delete"}

EndpointTokens == {"/", "a"}

Endpoints == UNION {[1..n -> EndpointTokens] : n \in 0..MaxEndpointLen}

\* status lines and bodies the remote side can answer with
Statuses == {200, 204, 304, 404, 500}

Bodies == {"", "oops", "null", "[1,2]"}

\* ------------------------------------------------------------- utils.py
RECURSIVE Str(_)
\* str(int) for a non-negative int: its decimal digits
Str(n) ==
    LET digit(d) == <<"0", "1", "2", "3", "4", "5", "6", "7", "8", "9">>[d + 1]
    IN IF n < 10 THEN <<digit(n)>> ELSE Str(n \div 10) \o <<digit(n % 10)>>

\* str.upper() on the method strings in use
Upper(s) ==
    CASE s \in {"get", "GET"} -> "GET"
      [] s \in {"Post", "POST"} -> "POST"
      [] s \in {"put", "PUT"} -> "PUT"
      [] s \in {"delete", "DELETE"} -> "DELETE"

\* str.lower() on the period strings in use
Lower(s) == IF s = "Hour" THEN "hour" ELSE s

get_seconds_since_epoch(dt) == dt \div 1000

get_curr_time_milliseconds(now) == now

get_period_interval_nocase(string) ==
    CASE Lower(string) = "minute" -> [kind |-> "return", value |-> 1]
      [] Lower(string) = "hour" -> [kind |-> "return", value |-> 60 * 1]
      [] Lower(string) = "day" -> [kind |-> "return", value |-> 24 * 60 * 1]
      [] OTHER -> [kind |-> "raise", error |-> "Exception"]

get_period_interval(string) ==
    CASE string = "minute" -> [kind |-> "return", value |-> 1]
      [] string = "hour" -> [kind |-> "return", value |-> 60 * 1]
      [] string = "day" -> [kind |-> "return", value |-> 24 * 60 * 1]
      [] OTHER -> [kind |-> "raise", error |-> "Exception"]

\* ------------------------------------------------------ endpoint wrappers
\* A wrapper is the helper it calls, its path (a token of pathparams is
\* replaced by that argument), its arguments, and how it passes them on:
\* "none" helper(path); "kw_params" helper(path, params=params);
\* "pos_data" helper(path, data).
W(name, helper, path, pathparams, required, optional, passes) ==
    [name |-> name, helper |-> helper, path |-> path, pathparams |-> pathparams,
     required |-> required, optional |-> optional, passes |-> passes]

get_api_version == W("get_api_version", "_get", <<"/", "api_version">>, {}, {}, {}, "none")
get_communications_id ==
    W("get_communications_id", "_get", <<"/", "communications", "/", "id">>, {}, {}, {}, "none")
get_quotes ==
    W("get_quotes", "_get", <<"/", "communications", "/", "quotes">>, {}, {},
      {"cursor", "limit", "market_ticker", "event_ticker", "status",
       "quote_creator_user_id", "rfq_creator_user_id", "rfq_id"}, "kw_params")
create_quote ==
    W("create_quote", "_post", <<"/", "communications", "/", "quotes">>, {}, {},
      {"rfq_id", "yes_bid", "no_bid", "rest_remainder"}, "kw_params")
get_quote ==
    W("get_quote", "_get", <<"/", "communications", "/", "quotes", "/", "quote_id">>,
      {"quote_id"}, {}, {}, "none")
delete_quote ==
    W("delete_quote", "_delete", <<"/", "communications", "/", "quotes", "/", "quote_id">>,
      {"quote_id"}, {}, {}, "none")
accept_quote ==
    W("accept_quote", "_put",
      <<"/", "communications", "/", "quotes", "/", "quote_id", "/", "accept">>,
      {"quote_id"}, {"data"}, {}, "pos_data")
confirm_quote ==
    W("confirm_quote", "_put",
      <<"/", "communications", "/", "quotes", "/", "quote_id", "/", "confirm">>,
      {"quote_id"}, {}, {}, "none")
get_rfqs ==
    W("get_rfqs", "_get", <<"/", "communications", "/", "rfqs">>, {}, {},
      {"cursor", "limit", "market_ticker", "event_ticker", "status", "creator_user_id"},
      "kw_params")
create_rfq ==
    W("create_rfq", "_post", <<"/", "communications", "/", "rfqs">>, {}, {},
      {"market_ticker", "contracts", "rest_remainder"}, "kw_params")
get_rfq ==
    W("get_rfq", "_get", <<"/", "communications", "/", "rfqs", "/", "rfq_id">>,
      {"rfq_id"}, {}, {}, "none")
delete_rfq ==
    W("delete_rfq", "_delete", <<"/", "communications", "/", "rfqs", "/", "rfq_id">>,
      {"rfq_id"}, {}, {}, "none")
get_events ==
    W("get_events", "_get", <<"/", "events">>, {}, {},
      {"limit", "cursor", "status", "series_ticker", "with_nested_markets"}, "kw_params")
get_event ==
    W("get_event", "_get", <<"/", "events", "/", "event_ticker">>, {"event_ticker"}, {},
      {"with_nested_markets"}, "kw_params")
\* get_markets without the literal query fragment in its path
get_markets_plain ==
    W("get_markets", "_get", <<"/", "markets">>, {}, {},
      {"limit", "cursor", "event_ticker", "series_ticker", "max_close_ts",
       "min_close_ts", "status", "tickers"}, "kw_params")
get_markets ==
    W("get_markets", "_get", <<"/", "markets", "?", "limit=1000">>, {}, {},
      {"limit", "cursor", "event_ticker", "series_ticker", "max_close_ts",
       "min_close_ts", "status", "tickers"}, "kw_params")
get_trades ==
    W("get_trades", "_get", <<"/", "markets", "/", "trades">>, {}, {},
      {"cursor", "limit", "ticker", "min_ts", "max_ts"}, "kw_params")
get_market ==
    W("get_market", "_get", <<"/", "markets", "/", "market_ticker">>, {"market_ticker"},
      {}, {}, "none")
get_market_orderbook ==
    W("get_market_orderbook", "_get", <<"/", "markets", "/", "market_ticker", "/", "orderbook">>,
      {"market_ticker"}, {}, {"depth"}, "kw_params")
get_series_list ==
    W("get_series_list", "_get", <<"/", "series", "/">>, {}, {},
      {"category", "include_product_metadata"}, "kw_params")
get_series ==
    W("get_series", "_get", <<"/", "series", "/", "series_ticker">>, {"series_ticker"},
      {}, {}, "none")
get_market_candlesticks ==
    W("get_market_candlesticks", "_get",
      <<"/", "series", "/", "series_ticker", "/", "markets", "/", "market_ticker",
        "/", "candlesticks">>,
      {"series_ticker", "market_ticker"}, {"start_ts", "end_ts", "period_interval"}, {},
      "kw_params")
get_announcements ==
    W("get_announcements", "_get", <<"/", "exchange", "/", "announcements">>, {}, {}, {}, "none")
get_schedule == W("get_schedule", "_get", <<"/", "exchange", "/", "schedule">>, {}, {}, {}, "none")
get_status == W("get_status", "_get", <<"/", "exchange", "/", "status">>, {}, {}, {}, "none")
get_user_data_timestamp ==
    W("get_user_data_timestamp", "_get", <<"/", "exchange", "/", "user_data_timestamp">>,
      {}, {}, {}, "none")
get_milestones ==
    W("get_milestones", "_get", <<"/", "milestones", "/">>, {}, {"limit"},
      {"minimum_start_date", "category", "_type", "related_event_ticker", "cursor"},
      "kw_params")
get_milestone ==
    W("get_milestone", "_get", <<"/", "milestones", "/", "milestone_id">>, {"milestone_id"},
      {}, {}, "none")
get_balance == W("get_balance", "_get", <<"/", "portfolio", "/", "balance">>, {}, {}, {}, "none")
get_fills ==
    W("get_fills", "_get", <<"/", "portfolio", "/", "fills">>, {}, {},
      {"ticker", "min_ts", "max_ts", "limit", "cursor"}, "kw_params")
get_orders ==
    W("get_orders", "_get", <<"/", "portfolio", "/", "orders">>, {}, {},
      {"ticker", "event_ticker", "min_ts", "max_ts", "status", "cursor", "limit"},
      "kw_params")
create_order ==
    W("create_order", "_post", <<"/", "portfolio", "/", "orders">>, {}, {"data"}, {}, "pos_data")
batch_create_orders ==
    W("batch_create_orders", "_post", <<"/", "portfolio", "/", "orders", "/", "batched">>,
      {}, {"data"}, {}, "pos_data")
batch_cancel_orders ==
    W("batch_cancel_orders", "_delete", <<"/", "portfolio", "/", "orders", "/", "batched">>,
      {}, {"data"}, {}, "pos_data")
get_order ==
    W("get_order", "_get", <<"/", "portfolio", "/", "orders", "/", "order_id">>, {"order_id"},
      {}, {}, "none")
cancel_order ==
    W("cancel_order", "_delete", <<"/", "portfolio", "/", "orders", "/", "order_id">>,
      {"order_id"}, {}, {}, "none")
amend_order ==
    W("amend_order", "_post", <<"/", "portfolio", "/", "orders", "/", "order_id", "/", "amend">>,
      {"order_id"}, {"data"}, {}, "pos_data")
decrease_order ==
    W("decrease_order", "_post",
      <<"/", "portfolio", "/", "orders", "/", "order_id", "/", "decrease">>,
      {"order_id"}, {"data"}, {}, "pos_data")
get_positions ==
    W("get_positions", "_get", <<"/", "portfolio", "/", "positions">>, {}, {},
      {"cursor", "limit", "count_filter", "settlement_status", "ticker", "event_ticker"},
      "kw_params")
get_portfolio_settlements ==
    W("get_portfolio_settlements", "_get", <<"/", "portfolio", "/", "settlements">>, {}, {},
      {"limit", "min_ts", "max_ts", "cursor"}, "kw_params")
get_portfolio_resting_order_total_value ==
    W("get_portfolio_resting_order_total_value", "_get",
      <<"/", "portfolio", "/", "summary", "/", "resting_order_total_value">>, {}, {}, {}, "none")
get_structured_target ==
    W("get_structured_target", "_get", <<"/", "structured_targets", "/", "structured_target_id">>,
      {"structured_target_id"}, {}, {}, "none")

\* every public wrapper of KalshiClient
Wrappers ==
    {get_api_version, get_communications_id, get_quotes, create_quote, get_quote,
     delete_quote, accept_quote, confirm_quote, get_rfqs, create_rfq, get_rfq, delete_rfq,
     get_events, get_event, get_markets, get_trades, get_market, get_market_orderbook,
     get_series_list, get_series, get_market_candlesticks, get_announcements, get_schedule,
     get_status, get_user_data_timestamp, get_milestones, get_milestone, get_balance,
     get_fills, get_orders, create_order, batch_create_orders, batch_cancel_orders,
     get_order, cancel_order, amend_order, decrease_order, get_positions,
     get_portfolio_settlements, get_portfolio_resting_order_total_value,
     get_structured_target}

\* the query key an argument is sent under
KeyOf(a) == IF a = "_type" THEN "type" ELSE a

\* the wrappers that only copy their arguments; get_market_candlesticks
\* converts its own and has an action to itself
PlainWrappers == Wrappers \ {get_market_candlesticks}

\* the argument combinations of a plain wrapper: an optional argument is
\* None (unset) or a value, the others always carry a value
ArgsOf(w) ==
    LET valued(S) == {f \in [S -> UNION {ArgValues(a) : a \in S}] :
                        \A a \in S : f[a] \in ArgValues(a)}
        optional(S) == {f \in [S -> {None} \cup UNION {ArgValues(a) : a \in S}] :
                        \A a \in S : f[a] \in {None} \cup ArgValues(a)}
        required == IF w.passes = "pos_data" THEN [w.required -> Payloads]
                    ELSE valued(w.required)
    IN {p @@ r @@ o : p \in [w.pathparams -> Ids], r \in required, o \in optional(w.optional)}

\* f-string interpolation of the path arguments into the path
PathOf(w, args) ==
    [i \in 1..Len(w.path) |->
        IF w.path[i] \in w.pathparams THEN args[w.path[i]] ELSE w.path[i]]

\* the params dict with every named argument copied, set or not
BuildParamsUnfiltered(w, args) ==
    LET named == w.required \cup w.optional
    IN [k \in {KeyOf(a) : a \in named} |->
            args[CHOOSE a \in named : KeyOf(a) = k]]

\* params = {<required>}; if x is not None: params["x"] = x, for each
\* optional x
BuildParams(w, args) ==
    LET named == w.required \cup {x \in w.optional : ~(args[x] = None)}
    IN [k \in {KeyOf(a) : a \in named} |->
            args[CHOOSE a \in named : KeyOf(a) = k]]

\* ------------------------------------------------- _get/_post/_put/_delete
\* parameter names of a helper, after self
HelperSignature(helper) ==
    CASE helper = "_get" -> <<"endpoint", "params">>
      [] helper = "_post" -> <<"endpoint", "data">>
      [] helper = "_put" -> <<"endpoint", "data">>
      [] helper = "_delete" -> <<"endpoint">>

HelperMethod(helper) ==
    CASE helper = "_get" -> "GET"
      [] helper = "_post" -> "POST"
      [] helper = "_put" -> "PUT"
      [] helper = "_delete" -> "DELETE"

\* Python's binding of a call helper(*positional, **keywords) to the
\* helper's signature: too many positional arguments, or a keyword the
\* helper does not have, is a TypeError raised before the body runs
Binds(helper, npositional, keywords) ==
    LET sig == HelperSignature(helper)
    IN /\ npositional <= Len(sig)
       /\ \A k \in keywords : \E i \in (npositional + 1)..Len(sig) : sig[i] = k

\* the arguments a wrapper passes to its helper
NPositional(w) == IF w.passes = "pos_data" THEN 2 ELSE 1

Keywords(w) == IF w.passes = "kw_params" THEN {"params"} ELSE {}

\* -------------------------------------------------------------- _request
StartsWithSlash(endpoint) == Len(endpoint) > 0 /\ endpoint[1] = "/"

\* the path with "/" put in front whatever it starts with
NormalizeAlways(endpoint) == <<"/">> \o endpoint

\* path = endpoint if endpoint.startswith("/") else "/" + endpoint
Normalize(endpoint) == IF StartsWithSlash(endpoint) THEN endpoint ELSE <<"/">> \o endpoint

\* url = f"{self.base_url}{path}"
Url(base, path) == base \o path

\* private_key.sign(payload, PSS, SHA256): the signature covers the payload;
\* the random salt of PSS is left out, nothing in the client reads it
RsaPssSign(key, payload) == [key |-> key, signed |-> payload]

B64Encode(bytes) == [base64 |-> bytes]

\* _generate_headers with the clock read taken again for the header
GenerateHeadersRereadClock(kid, key, method, path, now) ==
    LET timestamp_str == Str(get_curr_time_milliseconds(now))
        payload == timestamp_str \o <<".", Upper(method), ".">> \o path
    IN [payload |-> payload,
        headers |-> ("KALSHI-ACCESS-KEY" :> kid)
                    @@ ("KALSHI-ACCESS-SIGNATURE" :> B64Encode(RsaPssSign(key, payload)))
                    @@ ("KALSHI-ACCESS-TIMESTAMP" :> Str(get_curr_time_milliseconds(now + 1)))]

\* _generate_headers: the payload signed and the headers returned
GenerateHeaders(kid, key, method, path, now) ==
    LET timestamp_str == Str(get_curr_time_milliseconds(now))
        payload == timestamp_str \o <<".", Upper(method), ".">> \o path
    IN [payload |-> payload,
        headers |-> ("KALSHI-ACCESS-KEY" :> kid)
                    @@ ("KALSHI-ACCESS-SIGNATURE" :> B64Encode(RsaPssSign(key, payload)))
                    @@ ("KALSHI-ACCESS-TIMESTAMP" :> timestamp_str)]

\* where _request goes after _generate_headers, had the ValueError been
\* swallowed
AfterHeadersSwallowed(ok) == "send"

\* where _request goes after _generate_headers: on to session.request, or
\* out with the ValueError
AfterHeaders(ok) == IF ok THEN "send" ELSE "done"

\* response.raise_for_status(): raises for 4xx and 5xx
RaisesForStatus(status) == 400 <= status /\ status < 600

\* response.json()
JsonLoads(body) ==
    CASE body = "null" -> [kind |-> "return", value |-> [json |-> "null"]]
      [] body = "[1,2]" -> [kind |-> "return", value |-> [json |-> "array", items |-> <<1, 2>>]]
      [] OTHER -> [kind |-> "raise", error |-> "JSONDecodeError"]

\* what _request does with the answer of session.request
Outcome(resp) ==
    IF resp.kind = "transport_error" THEN [kind |-> "raise", error |-> "ConnectionError"]
    ELSE IF RaisesForStatus(resp.status)
         THEN [kind |-> "raise", error |-> "HTTPError",
               status |-> resp.status, body |-> resp.body]
         ELSE JsonLoads(resp.body)

Responses ==
    {[kind |-> "transport_error"]}
    \cup {[kind |-> "response", status |-> s, body |-> b] : s \in Statuses, b \in Bodies}

\* ------------------------------------------------------------------ state
VARIABLES
    key_id,        \* self.key_id
    private_key,   \* self.private_key
    base_url,      \* self.base_url
    clock,         \* wall clock, milliseconds since the epoch
    pc,            \* "idle", "sign", "send", "wait" or "done"
    call,          \* the public call in progress
    req,           \* arguments of _request
    path,          \* _request's normalized path
    url,           \* _request's url
    payload,       \* the message handed to private_key.sign
    headers,       \* the headers _generate_headers returned
    sent,          \* the HTTP request issued by session.request
    response,      \* the answer to it
    result,        \* what the public call returned or raised
    nDispatch,     \* calls of _request made by the call in progress
    nSign,         \* runs of _generate_headers in the call in progress
    nHttp          \* HTTP requests issued in the call in progress

vars == <<key_id, private_key, base_url, clock, pc, call, req, path, url, payload,
          headers, sent, response, result, nDispatch, nSign, nHttp>>

client == <<key_id, private_key, base_url>>

KeyId == "key-id"
PrivateKey == "private-key"
BaseUrl == <<"https://api.elections.kalshi.com/trade-api/v2">>

Nothing == [kind |-> "none"]

Init ==
    /\ key_id = KeyId
    /\ private_key = PrivateKey
    /\ base_url = BaseUrl
    /\ clock = ClockStart
    /\ pc = "idle"
    /\ call = Nothing
    /\ req = Nothing
    /\ path = <<>>
    /\ url = <<>>
    /\ payload = <<>>
    /\ headers = <<>>
    /\ sent = Nothing
    /\ response = Nothing
    /\ result = Nothing
    /\ nDispatch = 0
    /\ nSign = 0
    /\ nHttp = 0

\* the wall clock advances
Tick ==
    /\ clock < MaxClock
    /\ clock' = clock + 1
    /\ UNCHANGED <<client, pc, call, req, path, url, payload, headers, sent, response,
                   result, nDispatch, nSign, nHttp>>

\* entry of _request(method, endpoint, params, data): lines 51-52
Dispatch(method, endpoint, hasParams, params, data) ==
    /\ req' = [kind |-> "request", method |-> method, endpoint |-> endpoint,
               hasParams |-> hasParams, params |-> params, data |-> data]
    /\ path' = Normalize(endpoint)
    /\ url' = Url(base_url, Normalize(endpoint))
    /\ nDispatch' = nDispatch + 1
    /\ pc' = "sign"
    /\ UNCHANGED result

\* the call raised before _request was entered
RaiseEarly(error) ==
    /\ result' = [kind |-> "raise", error |-> error]
    /\ pc' = "done"
    /\ UNCHANGED <<req, path, url, nDispatch>>

\* a wrapper calls its helper, which calls _request
ViaHelper(w, endpoint, params, data) ==
    IF Binds(w.helper, NPositional(w), Keywords(w))
    THEN Dispatch(HelperMethod(w.helper), endpoint, w.passes = "kw_params", params, data)
    ELSE RaiseEarly("TypeError")

\* a public wrapper other than get_market_candlesticks is called
CallWrapper ==
    /\ pc = "idle"
    /\ \E w \in PlainWrappers : \E args \in ArgsOf(w) :
        /\ call' = [kind |-> "wrapper", w |-> w, args |-> args]
        /\ ViaHelper(w, PathOf(w, args),
                     IF w.passes = "kw_params" THEN BuildParams(w, args) ELSE <<>>,
                     IF w.passes = "pos_data" THEN args["data"] ELSE None)
    /\ UNCHANGED <<client, clock, payload, headers, sent, response, nSign, nHttp>>

\* get_market_candlesticks is called
CallCandlesticks ==
    /\ pc = "idle"
    /\ \E s \in Ids, m \in Ids, start \in Datetimes, end \in Datetimes, period \in Periods :
        LET w == get_market_candlesticks
            args == [series_ticker |-> s, market_ticker |-> m, start_ts |-> start,
                     end_ts |-> end, period_interval |-> period]
            interval == get_period_interval(period)
        IN /\ call' = [kind |-> "wrapper", w |-> w, args |-> args]
           /\ IF interval.kind = "raise"
              THEN RaiseEarly(interval.error)
              ELSE ViaHelper(w, PathOf(w, args),
                             [start_ts |-> get_seconds_since_epoch(start),
                              end_ts |-> get_seconds_since_epoch(end),
                              period_interval |-> interval.value],
                             None)
    /\ UNCHANGED <<client, clock, payload, headers, sent, response, nSign, nHttp>>

\* _request is called with a method and an endpoint of the caller's own
CallRequest ==
    /\ pc = "idle"
    /\ \E method \in Methods, endpoint \in Endpoints :
        /\ call' = [kind |-> "request", method |-> method, endpoint |-> endpoint]
        /\ Dispatch(method, endpoint, FALSE, <<>>, None)
    /\ UNCHANGED <<client, clock, payload, headers, sent, response, nSign, nHttp>>

\* headers = self._generate_headers(method, path): line 53 and lines 27-48;
\* private_key.sign returns a signature or reports InvalidSignature
Sign ==
    /\ pc = "sign"
    /\ \E ok \in BOOLEAN :
        LET h == GenerateHeaders(key_id, private_key, req.method, path, clock)
        IN /\ payload' = h.payload
           /\ headers' = IF ok THEN h.headers ELSE <<>>
           /\ result' = IF ok THEN result ELSE [kind |-> "raise", error |-> "ValueError"]
           /\ pc' = AfterHeaders(ok)
    /\ nSign' = nSign + 1
    /\ UNCHANGED <<client, clock, call, req, path, url, sent, response, nDispatch, nHttp>>

\* self.session.request(...) issues the HTTP request: lines 54-59
Send ==
    /\ pc = "send"
    /\ sent' = [kind |-> "http", method |-> Upper(req.method), url |-> url,
                headers |-> headers, hasParams |-> req.hasParams, params |-> req.params,
                json |-> req.data]
    /\ nHttp' = nHttp + 1
    /\ pc' = "wait"
    /\ UNCHANGED <<client, clock, call, req, path, url, payload, headers, response, result,
                   nDispatch, nSign>>

\* the answer, or a transport failure, arrives: lines 60-61
Receive ==
    /\ pc = "wait"
    /\ \E resp \in Responses :
        /\ response' = resp
        /\ result' = Outcome(resp)
    /\ pc' = "done"
    /\ UNCHANGED <<client, clock, call, req, path, url, payload, headers, sent,
                   nDispatch, nSign, nHttp>>

\* the call is over; its descriptor and headers are discarded
Return ==
    /\ pc = "done"
    /\ pc' = "idle"
    /\ call' = Nothing
    /\ req' = Nothing
    /\ path' = <<>>
    /\ url' = <<>>
    /\ payload' = <<>>
    /\ headers' = <<>>
    /\ sent' = Nothing
    /\ response' = Nothing
    /\ result' = Nothing
    /\ nDispatch' = 0
    /\ nSign' = 0
    /\ nHttp' = 0
    /\ UNCHANGED <<client, clock>>

Next ==
    \/ Tick
    \/ CallWrapper
    \/ CallCandlesticks
    \/ CallRequest
    \/ Sign
    \/ Send
    \/ Receive
    \/ Return

Spec == Init /\ [][Next]_vars

TypeOK ==
    /\ pc \in {"idle", "sign", "send", "wait", "done"}
    /\ clock \in ClockStart..MaxClock
    /\ nDispatch \in 0..1

\* ----------------------------------------------------------------- claims
HeaderNames == {"KALSHI-ACCESS-KEY", "KALSHI-ACCESS-SIGNATURE", "KALSHI-ACCESS-TIMESTAMP"}

\* tokens that are query-string content
IsQueryContent(tok) == tok \in {"?", "limit=1000"}

Contains(seq, tok) == \E i \in 1..Len(seq) : seq[i] = tok

Tail_(seq, n) == SubSeq(seq, Len(seq) - n + 1, Len(seq))

\* the arguments of the wrapper call in progress that were given a value
ArgsGivenAValue ==
    call.w.required \cup {a \in call.w.optional : call.args[a] # None}

\* C1: the message a wrapper call hands to the signer holds no query-string
\* content: no "?" and no key=value fragment
C1_SignedMessageHasNoQuery ==
    (call.kind = "wrapper" /\ nSign > 0) =>
        \A i \in 1..Len(payload) : ~IsQueryContent(payload[i])

\* C2: every answer whose status is outside 200-299 makes _request raise an
\* HTTP error carrying the status and the body, and return nothing
C2_NonSuccessRaisesHttpError ==
    (response.kind = "response" /\ response.status \notin 200..299) =>
        result = [kind |-> "raise", error |-> "HTTPError",
                  status |-> response.status, body |-> response.body]

\* C3: every wrapper call, whatever its arguments, reaches _request exactly
\* once (the period check of get_market_candlesticks, which C8 is about,
\* set aside)
C3_EveryWrapperDispatchesOnce ==
    (call.kind = "wrapper" /\ pc = "done"
        /\ ~(call.w.name = "get_market_candlesticks" /\ result.kind = "raise"
             /\ result.error = "Exception" /\ nDispatch = 0)) =>
        nDispatch = 1

C5_GetMarketsLiteralLimit ==
    (call.kind = "wrapper" /\ call.w.name = "get_markets" /\ nDispatch = 1) =>
        /\ req.endpoint = <<"/", "markets", "?", "limit=1000">>
        /\ Contains(path, "limit=1000")
        /\ Contains(url, "limit=1000")
        /\ \A a \in call.w.optional :
              call.args[a] # None =>
                 /\ KeyOf(a) \in DOMAIN req.params
                 /\ req.params[KeyOf(a)] = call.args[a]
        /\ sent.kind = "http" =>
              /\ Contains(sent.url, "limit=1000")
              /\ sent.params = req.params

C5_Witness ==
    /\ call.kind = "wrapper"
    /\ call.w.name = "get_markets"
    /\ call.args["limit"] = "50"
    /\ call.args["status"] = "x"
    /\ sent.kind = "http"
    /\ Contains(sent.url, "limit=1000")
    /\ sent.params["limit"] = "50"

\* C6: _generate_headers signs str(t).METHOD.path for one clock value t and
\* returns exactly three headers, the key identifier and the decimal string
\* of that same t among them
C6_HeadersSignTimestampMethodPath ==
    nSign = 1 =>
        \E t \in ClockStart..clock :
            /\ payload = Str(t) \o <<".", Upper(req.method), ".">> \o path
            /\ pc \in {"send", "wait"} =>
                  /\ DOMAIN headers = HeaderNames
                  /\ headers["KALSHI-ACCESS-KEY"] = key_id
                  /\ headers["KALSHI-ACCESS-TIMESTAMP"] = Str(t)
                  /\ headers["KALSHI-ACCESS-SIGNATURE"].base64.signed = payload

C6_Witness ==
    /\ call.kind = "request"
    /\ req.method = "get"
    /\ pc = "send"
    /\ clock > ClockStart
    /\ payload = Str(ClockStart + 1) \o <<".", "GET", ".", "/", "a">>
    /\ headers["KALSHI-ACCESS-TIMESTAMP"] = Str(ClockStart + 1)

\* C7: every answer with a status in 200-299 makes _request return the body
\* parsed as JSON, and never raise
C7_SuccessReturnsJson ==
    (response.kind = "response" /\ response.status \in 200..299) =>
        result.kind = "return"

\* C8: get_market_candlesticks sends 1, 60, 1440 for "minute", "hour",
\* "day", and for every other period string raises before anything is
\* signed or sent
C8_PeriodInterval ==
    (call.kind = "wrapper" /\ call.w.name = "get_market_candlesticks") =>
        LET p == call.args.period_interval
        IN /\ p = "minute" => (nDispatch = 1 /\ req.params.period_interval = 1)
           /\ p = "hour" => (nDispatch = 1 /\ req.params.period_interval = 60)
           /\ p = "day" => (nDispatch = 1 /\ req.params.period_interval = 1440)
           /\ p \notin {"minute", "hour", "day"} =>
                 /\ pc = "done"
                 /\ result = [kind |-> "raise", error |-> "Exception"]
                 /\ nDispatch = 0 /\ nSign = 0 /\ nHttp = 0
                 /\ sent.kind = "none"

C8_Witness ==
    /\ call.kind = "wrapper"
    /\ call.w.name = "get_market_candlesticks"
    /\ call.args.period_interval = "Hour"
    /\ result.kind = "raise"
    /\ nSign = 0

\* C9: the normalized path begins with "/", is the endpoint itself when
\* that begins with "/" and the endpoint after one "/" otherwise, and is a
\* fixed point of normalization; the URL is the base URL followed by it, the
\* signed message ends with it, and the method sent is the signed one
C9_NormalizedPath ==
    nDispatch = 1 =>
        /\ path[1] = "/"
        /\ StartsWithSlash(req.endpoint) => path = req.endpoint
        /\ ~StartsWithSlash(req.endpoint) => path = <<"/">> \o req.endpoint
        /\ Normalize(path) = path
        /\ url = base_url \o path
        /\ nSign = 1 =>
              /\ Tail_(payload, Len(path)) = path
              /\ payload[Len(payload) - Len(path) - 1] = Upper(req.method)
        /\ sent.kind = "http" =>
              /\ sent.url = base_url \o path
              /\ sent.method = payload[Len(payload) - Len(path) - 1]

C9_Witness ==
    /\ call.kind = "request"
    /\ req.endpoint = <<"a">>
    /\ req.method = "Post"
    /\ path = <<"/", "a">>
    /\ sent.kind = "http"
    /\ sent.method = "POST"

\* C10: in one run of _request the headers are generated once and before
\* the HTTP request, at most one HTTP request is issued, none when header
\* generation failed, a failure ends the call, and the credential is never
\* changed
C10_OneSignatureOneRequest ==
    /\ nSign <= 1
    /\ nHttp <= 1
    /\ nHttp = 1 => (nSign = 1 /\ DOMAIN sent.headers = HeaderNames)
    /\ pc \in {"send", "wait"} => nSign = 1
    /\ (pc = "done" /\ nDispatch = 1) => nSign = 1
    /\ (result.kind = "raise" /\ result.error = "ValueError") => nHttp = 0
    /\ response.kind # "none" => (nHttp = 1 /\ nSign = 1)
    /\ result.kind = "raise" => pc = "done"
    /\ key_id = KeyId
    /\ private_key = PrivateKey

C10_Witness ==
    /\ pc = "done"
    /\ response.kind = "response"
    /\ response.status = 500
    /\ result.kind = "raise"
    /\ nSign = 1
    /\ nHttp = 1
====
